---- MODULE Spec2Model ----
(***************************************************************************)
(* A model of the DecodeNote core (utils/nostr.ts): the NIP-19 bech32/TLV  *)
(* identifier decoder and the event integrity validator.                   *)
(*                                                                         *)
(* JavaScript values are represented as follows.                           *)
(*   - a Uint8Array is a sequence of integers 0..255;                      *)
(*   - a string is a sequence of one-character strings;                    *)
(*   - an optional field (absent / present) is a sequence of length 0 / 1; *)
(*   - the tlv property of an identifier is its sequence of records, empty *)
(*     also for the identifiers that carry no tlv property;                *)
(*   - `undefined` read from a typed array out of range is Undefined, and  *)
(*     the number NaN is NaN (two negative sentinels, no byte is negative).*)
(***************************************************************************)
EXTENDS Integers, Sequences, FiniteSets, TLC

VARIABLES
    identifier,   \* decodeBech32Identifier: outcome of bech32.decode/fromWords on the argument
    pc,           \* decodeBech32Identifier/decodeTLV: position ("call", "loop", "done")
    offset,       \* decodeTLV: the cursor `offset`
    result,       \* decodeTLV: the identifier under construction
    returned,     \* decodeBech32Identifier: <<>> while running, <<v>> after return (v = Null or an identifier)
    event,        \* validateEvent: the argument
    verifyApi,    \* what schnorr.verify of the installed @noble/secp256k1 does, see InitValidate
    vpc,          \* validateEvent: position ("call", "awaitDigest", "done")
    pending,      \* validateEvent: the bytes handed to sha256 while suspended
    hash,         \* validateEvent: the local hash, <<>> until the digest is there
    idMatch,      \* validateEvent: the local idMatch
    sigValid,     \* validateEvent: the local sigValid
    errors,       \* validateEvent: the local errors
    sigTried,     \* validateEvent: control has entered the inner try block (signature validation)
    vresult,      \* validateEvent: <<>> while running, <<r>> once the promise is fulfilled with r
    input,        \* parseInput: the argument, a string
    jsonOf,       \* parseInput: what JSON.parse gives for the trimmed argument (<<>>: it throws)
    bechOf,       \* parseInput: what the bech32 checksum and payload decoding give for the identifier in it
    ppc,          \* parseInput: position ("call", "done")
    parsed,       \* parseInput: <<>> before the return, then <<[threw, value]>>
    calls,        \* concurrent validateEvent calls: the locals of each call
    currentView,  \* App: 'home', 'inspect' or 'decode'
    parsedResult, \* App: null or the ParsedResult shown
    homeError,    \* Homepage: its error message
    mounted,      \* the EventInspector or IdentifierDecoder on screen: <<>> or <<its state>>
    validations,  \* validate() calls of EventInspector effects that await validateEvent
    clipboard,    \* handleCopy calls that await copyToClipboard
    timers,       \* the pending setTimeout callbacks of handleCopy, in firing order
    mounts        \* how many components have been mounted so far

decVars == <<identifier, pc, offset, result, returned>>
valVars == <<event, verifyApi, vpc, pending, hash, idMatch, sigValid, errors, sigTried, vresult>>
parVars == <<input, jsonOf, bechOf, ppc, parsed>>
conVars == <<calls>>
appVars == <<currentView, parsedResult, homeError, mounted, validations, clipboard, timers, mounts>>
vars == <<decVars, valVars, parVars, conVars, appVars>>

-----------------------------------------------------------------------------
(* Bounds of the model *)

\* longest TLV payload / key payload, in bytes
MaxLen == 4

\* longest value of a kind record, in bytes
MaxKindLen == 5

\* the number of validateEvent calls that run concurrently
MaxCalls == 2

\* the number of components the App mounts in a run
MaxMounts == 2

\* the number of copies whose promise or timer is pending at a time
MaxCopies == 2

-----------------------------------------------------------------------------
(* JavaScript values *)

Undefined == 0 - 1
NaN == 0 - 2
Null == [type |-> "null"]

\* byte values that occur in payloads: the five known TLV types (also used as
\* lengths 0..4), an unknown type / overlong length, and a byte above 0x7f
ByteVals == {0, 1, 2, 3, 4, 99, 200}

RECURSIVE SeqsUpTo(_, _)
SeqsUpTo(S, n) ==
    IF n = 0 THEN {<<>>}
    ELSE LET shorter == SeqsUpTo(S, n - 1)
         IN  shorter \cup {Append(s, x) : s \in {t \in shorter : Len(t) = n - 1}, x \in S}

HexDigits == <<"0", "1", "2", "3", "4", "5", "6", "7", "8", "9", "a", "b", "c", "d", "e", "f">>

\* b.toString(16) without the padding to two digits
ByteToHexUnpadded(b) == IF b < 16 THEN <<HexDigits[b + 1]>> ELSE <<HexDigits[(b \div 16) + 1], HexDigits[(b % 16) + 1]>>

\* b.toString(16).padStart(2, '0')
ByteToHex(b) == <<HexDigits[(b \div 16) + 1], HexDigits[(b % 16) + 1]>>

\* bytesToHex: Array.from(bytes).map(...).join('')
RECURSIVE bytesToHex(_)
bytesToHex(bytes) ==
    IF bytes = <<>> THEN <<>>
    ELSE ByteToHex(Head(bytes)) \o bytesToHex(Tail(bytes))

\* x << 8 on a 32-bit integer x: the low 24 bits move up one byte and the top
\* byte becomes the sign-carrying byte of the 32-bit result
Shl8(x) ==
    LET low24 == x % 16777216
        top == low24 \div 65536
        rest == low24 % 65536
    IN  (IF top >= 128 THEN top - 256 ELSE top) * 16777216 + rest * 256

\* bytesToNumber: result = (result << 8) + bytes[i]
RECURSIVE bytesToNumberFrom(_, _)
bytesToNumberFrom(acc, bytes) ==
    IF bytes = <<>> THEN acc
    ELSE bytesToNumberFrom(Shl8(acc) + Head(bytes), Tail(bytes))

bytesToNumber(bytes) == bytesToNumberFrom(0, bytes)

\* new TextDecoder().decode(value): UTF-8, as a sequence of code points; a
\* byte that does not start a well-formed sequence decodes to U+FFFD. Only the
\* one- and two-byte forms are spelled out: no lead byte of a longer form
\* occurs in ByteVals.
RECURSIVE TextDecode(_)
TextDecode(bytes) ==
    IF bytes = <<>> THEN <<>>
    ELSE LET b == Head(bytes)
         IN  IF b < 128 THEN <<b>> \o TextDecode(Tail(bytes))
             ELSE IF /\ b >= 194 /\ b <= 223 /\ Len(bytes) >= 2
                     /\ bytes[2] >= 128 /\ bytes[2] <= 191
                  THEN <<(b - 192) * 64 + (bytes[2] - 128)>> \o TextDecode(Tail(Tail(bytes)))
                  ELSE <<65533>> \o TextDecode(Tail(bytes))

\* data[i] on a Uint8Array: undefined out of range
At(data, i) == IF i >= 0 /\ i < Len(data) THEN data[i + 1] ELSE Undefined

\* data.slice(start, end) for start >= 0; an `end` of NaN counts as 0
Slice(data, start, end) ==
    LET e == IF end = NaN THEN 0 ELSE IF end > Len(data) THEN Len(data) ELSE end
        s == IF start > Len(data) THEN Len(data) ELSE start
    IN  IF e <= s THEN <<>> ELSE SubSeq(data, s + 1, e)

\* a + b on numbers where either may be undefined or NaN
JsAdd(a, b) == IF a \in {Undefined, NaN} \/ b \in {Undefined, NaN} THEN NaN ELSE a + b

\* a < b on numbers; false when either is NaN
JsLess(a, b) == a # NaN /\ b # NaN /\ a < b

-----------------------------------------------------------------------------
(* decodeTLV *)

\* getTLVTypeName: names[type] || `unknown(${type})`
getTLVTypeName(type) ==
    CASE type = 0 -> <<"special">>
      [] type = 1 -> <<"relay">>
      [] type = 2 -> <<"author">>
      [] type = 3 -> <<"kind">>
      [] type = 4 -> <<"d-tag">>
      [] OTHER -> <<"unknown", type>>

EmptyData == [id |-> <<>>, pubkey |-> <<>>, relays |-> <<>>, author |-> <<>>, kind |-> <<>>, dTag |-> <<>>]

\* the `result` decodeTLV starts from
NewResult(type) == [type |-> type, data |-> EmptyData, tlv |-> <<>>]

\* a switch whose default branch stores the value as the d tag
ParseTLVTypeDefaultDTag(type, d, tlvType, value) ==
    CASE tlvType = 0 ->
            IF type = "nevent" THEN [d EXCEPT !.id = <<bytesToHex(value)>>]
            ELSE [d EXCEPT !.pubkey = <<bytesToHex(value)>>]
      [] tlvType = 1 ->
            LET rs == IF d.relays = <<>> THEN <<>> ELSE d.relays[1]
            IN  [d EXCEPT !.relays = <<Append(rs, TextDecode(value))>>]
      [] tlvType = 2 -> [d EXCEPT !.author = <<bytesToHex(value)>>]
      [] tlvType = 3 -> [d EXCEPT !.kind = <<bytesToNumber(value)>>]
      [] OTHER -> [d EXCEPT !.dTag = <<TextDecode(value)>>]

\* the switch (tlvType) of the loop body
ParseTLVType(type, d, tlvType, value) ==
    CASE tlvType = 0 ->
            IF type = "nevent" THEN [d EXCEPT !.id = <<bytesToHex(value)>>]
            ELSE IF type = "nprofile" \/ type = "naddr" THEN [d EXCEPT !.pubkey = <<bytesToHex(value)>>]
            ELSE d
      [] tlvType = 1 ->
            LET rs == IF d.relays = <<>> THEN <<>> ELSE d.relays[1]
            IN  [d EXCEPT !.relays = <<Append(rs, TextDecode(value))>>]
      [] tlvType = 2 -> [d EXCEPT !.author = <<bytesToHex(value)>>]
      [] tlvType = 3 -> [d EXCEPT !.kind = <<bytesToNumber(value)>>]
      [] tlvType = 4 -> [d EXCEPT !.dTag = <<TextDecode(value)>>]
      [] OTHER -> d

\* the value bytes an iteration at cursor `off` reads
TLVValue(data, off) == Slice(data, off + 2, JsAdd(off + 2, At(data, off + 1)))

\* the record an iteration at cursor `off` pushes
TLVEntry(data, off) ==
    [type |-> At(data, off),
     typeName |-> getTLVTypeName(At(data, off)),
     length |-> At(data, off + 1),
     value |-> bytesToHex(TLVValue(data, off))]

\* a cursor that advances by the length of the value only
NextOffsetWithoutHeader(off, length) == JsAdd(off, length)

\* offset += 2 + length
NextOffset(off, length) == JsAdd(off, JsAdd(2, length))

-----------------------------------------------------------------------------
(* validateEvent: strings, hex and the two cryptographic primitives *)

JsTrue == "true"
JsFalse == "false"
\* the object schnorr.verify returns when it is an async function
JsPromise == "[object Promise]"

JsBool(b) == IF b THEN JsTrue ELSE JsFalse
Truthy(v) == v # JsFalse
\* a && b
JsAnd(a, b) == IF Truthy(a) THEN b ELSE a

UpperDigits == <<"0", "1", "2", "3", "4", "5", "6", "7", "8", "9", "A", "B", "C", "D", "E", "F">>

\* the value of a hexadecimal digit of either case, Undefined for any other character
HexValue(c) ==
    IF \E i \in 1..16 : HexDigits[i] = c THEN (CHOOSE i \in 1..16 : HexDigits[i] = c) - 1
    ELSE IF \E i \in 1..16 : UpperDigits[i] = c THEN (CHOOSE i \in 1..16 : UpperDigits[i] = c) - 1
    ELSE Undefined

\* parseInt(pair, 16) stored into a Uint8Array element: the longest prefix of
\* hex digits is parsed, and NaN (no digit at all) is stored as 0
ParseHexPair(pair) ==
    IF pair = <<>> \/ HexValue(pair[1]) = Undefined THEN 0
    ELSE IF Len(pair) = 1 \/ HexValue(pair[2]) = Undefined THEN HexValue(pair[1])
    ELSE 16 * HexValue(pair[1]) + HexValue(pair[2])

\* new Uint8Array(hex.length / 2) raises a RangeError when hex.length is odd
hexToBytesThrows(hex) == Len(hex) % 2 = 1

\* hexToBytes, for an argument on which it does not throw
hexToBytes(hex) == [i \in 1..(Len(hex) \div 2) |-> ParseHexPair(SubSeq(hex, 2 * i - 1, 2 * i))]

\* JSON.stringify of a string without characters that need escaping
JsonString(str) == <<"\"">> \o str \o <<"\"">>

\* JSON.stringify of a number: its decimal digits
RECURSIVE JsonNumber(_)
JsonNumber(n) ==
    IF n < 10 THEN <<HexDigits[n + 1]>>
    ELSE JsonNumber(n \div 10) \o <<HexDigits[(n % 10) + 1]>>

\* JSON.stringify of an array of strings
RECURSIVE JsonStrings(_)
JsonStrings(strs) ==
    IF strs = <<>> THEN <<>>
    ELSE JsonString(Head(strs)) \o (IF Tail(strs) = <<>> THEN <<>> ELSE <<",">> \o JsonStrings(Tail(strs)))

\* JSON.stringify of event.tags, an array of arrays of strings
RECURSIVE JsonTagList(_)
JsonTagList(tags) ==
    IF tags = <<>> THEN <<>>
    ELSE <<"[">> \o JsonStrings(Head(tags)) \o <<"]">>
         \o (IF Tail(tags) = <<>> THEN <<>> ELSE <<",">> \o JsonTagList(Tail(tags)))

JsonTags(tags) == <<"[">> \o JsonTagList(tags) \o <<"]">>

\* a serialisation that puts created_at before pubkey
SerializeCreatedAtFirst(ev) ==
    <<"[", "0", ",">> \o JsonNumber(ev.created_at) \o <<",">> \o JsonString(ev.pubkey) \o <<",">>
    \o JsonNumber(ev.kind) \o <<",">> \o JsonTags(ev.tags) \o <<",">> \o JsonString(ev.content) \o <<"]">>

\* JSON.stringify(eventForId) with eventForId = [0, pubkey, created_at, kind, tags, content]
Serialize(ev) ==
    <<"[", "0", ",">> \o JsonString(ev.pubkey) \o <<",">> \o JsonNumber(ev.created_at) \o <<",">>
    \o JsonNumber(ev.kind) \o <<",">> \o JsonTags(ev.tags) \o <<",">> \o JsonString(ev.content) \o <<"]">>

\* the 32-byte values of the model: byte i of Word32(k) is k + i (mod 256)
Word32(k) == [i \in 1..32 |-> (k + i) % 256]

PubkeyA == bytesToHex(Word32(9))
PubkeyB == bytesToHex(Word32(73))
Pubkeys == <<PubkeyA, PubkeyB>>

Contents == <<<<"h", "i">>, <<"h", "o">>>>
TagLists == <<<<>>, <<<<"e", "x">>>>>>

\* the event texts of the model, in a fixed order
EventFields == [pubkey : {Pubkeys[i] : i \in 1..Len(Pubkeys)},
                created_at : {1700000000},
                kind : {1},
                tags : {TagLists[i] : i \in 1..Len(TagLists)},
                content : {Contents[i] : i \in 1..Len(Contents)}]

\* NIP-01: the id of an event is the SHA-256 of the UTF-8 text
\* [0,<pubkey>,<created_at>,<kind>,<tags>,<content>] without white space
Nip01Text(f) ==
    <<"[", "0", ",">> \o JsonString(f.pubkey) \o <<",">> \o JsonNumber(f.created_at) \o <<",">>
    \o JsonNumber(f.kind) \o <<",">> \o JsonTags(f.tags) \o <<",">> \o JsonString(f.content) \o <<"]">>

\* the rank of the fields f among the event texts of the model (1..8)
FieldsRank(f) ==
    LET p == CHOOSE i \in 1..Len(Pubkeys) : Pubkeys[i] = f.pubkey
        t == CHOOSE i \in 1..Len(TagLists) : TagLists[i] = f.tags
        c == CHOOSE i \in 1..Len(Contents) : Contents[i] = f.content
    IN  ((p - 1) * Len(TagLists) + (t - 1)) * Len(Contents) + c

\* crypto.subtle.digest('SHA-256', data) when it succeeds: a 32-byte digest
\* that is collision-free on the texts of the model (every text that is not
\* the NIP-01 text of some event of the model gets one further digest)
sha256(text) ==
    IF \E f \in EventFields : Nip01Text(f) = text
    THEN Word32(160 + 11 * FieldsRank(CHOOSE f \in EventFields : Nip01Text(f) = text))
    ELSE Word32(160)

\* BIP-340: the signature a correct signer produces for message msg under the
\* x-only public key pub (64 bytes, determined by msg and pub)
SchnorrSign(msg, pub) == [i \in 1..64 |-> (3 * msg[((i - 1) % 32) + 1] + 5 * pub[((i - 1) % 32) + 1] + i) % 256]

\* schnorr.verify accepts exactly the well-formed triples that verify
WellFormedTriple(signature, messageHash, pubkey) ==
    Len(signature) = 64 /\ Len(messageHash) = 32 /\ Len(pubkey) = 32

SchnorrVerifies(signature, messageHash, pubkey) ==
    /\ WellFormedTriple(signature, messageHash, pubkey)
    /\ signature = SchnorrSign(messageHash, pubkey)

-----------------------------------------------------------------------------
(* validateEvent *)

IdMismatchError == <<"Event ID does not match computed hash">>
InvalidSignatureError == <<"Invalid signature">>
SigFailedError(message) == <<"Signature validation failed: ", message>>
ValidationError(message) == <<"Validation error: ", message>>

\* str with its hex digits in lower case
ToLower(str) == [i \in 1..Len(str) |-> IF HexValue(str[i]) = Undefined THEN str[i] ELSE HexDigits[HexValue(str[i]) + 1]]

\* a comparison that ignores the case of the hex digits
IdMatchesIgnoringCase(computedId, id) == ToLower(computedId) = ToLower(id)

\* computedId === event.id
IdMatches(computedId, id) == computedId = id

\* The statements of the inner try block up to the assignment of sigValid:
\* either one of them raises (raised = <<message>>), or schnorr.verify
\* returns a value. hexToBytes raises on a string of odd length. What
\* schnorr.verify does depends on the build, see verifyApi.
SigAttempt(ev, api) ==
    IF hexToBytesThrows(ev.id) \/ hexToBytesThrows(ev.sig) \/ hexToBytesThrows(ev.pubkey)
    THEN [raised |-> <<"Invalid typed array length">>, value |-> JsFalse]
    ELSE LET messageHash == hexToBytes(ev.id)
             signature == hexToBytes(ev.sig)
             pubkey == hexToBytes(ev.pubkey)
         IN  IF api = "async"
             THEN [raised |-> <<>>, value |-> JsPromise]
             ELSE IF api = "syncStrict" /\ ~WellFormedTriple(signature, messageHash, pubkey)
             THEN [raised |-> <<"invalid signature, message or public key">>, value |-> JsFalse]
             ELSE [raised |-> <<>>, value |-> JsBool(SchnorrVerifies(signature, messageHash, pubkey))]

\* the inner try block without its catch: an exception reaches the outer catch
SigCheckUncaught(ev, api) ==
    LET a == SigAttempt(ev, api)
    IN  IF a.raised # <<>>
        THEN [sigValid |-> JsFalse, errors |-> <<ValidationError(a.raised[1])>>]
        ELSE [sigValid |-> a.value,
              errors |-> IF Truthy(a.value) THEN <<>> ELSE <<InvalidSignatureError>>]

\* The inner try/catch: what it leaves in sigValid and what it pushes onto errors
SigCheck(ev, api) ==
    LET a == SigAttempt(ev, api)
    IN  IF a.raised # <<>>
        THEN [sigValid |-> JsFalse, errors |-> <<SigFailedError(a.raised[1])>>]
        ELSE [sigValid |-> a.value,
              errors |-> IF Truthy(a.value) THEN <<>> ELSE <<InvalidSignatureError>>]

\* the object validateEvent returns
ValidationResult(im, sv, errs) ==
    [isValid |-> JsAnd(JsAnd(im, sv), JsBool(errs = <<>>)),
     idMatch |-> im,
     sigValid |-> sv,
     errors |-> errs]

\* the id a correct signer gives the event with fields f
SignerId(f) == bytesToHex(sha256(Nip01Text(f)))

\* the signature (as hex) a correct signer produces for the id idHex under pubkeyHex
SignerSig(idHex, pubkeyHex) == bytesToHex(SchnorrSign(hexToBytes(idHex), hexToBytes(pubkeyHex)))

\* str with its hex digits in upper case
ToUpper(str) == [i \in 1..Len(str) |-> IF HexValue(str[i]) = Undefined THEN str[i] ELSE UpperDigits[HexValue(str[i]) + 1]]

\* hex with byte number n (from 1) replaced by a different byte
FlipByte(hex, n) ==
    LET bytes == hexToBytes(hex)
    IN  bytesToHex([bytes EXCEPT ![n] = (@ + 1) % 256])

DropLast(str, n) == SubSeq(str, 1, Len(str) - n)

\* the events with the same pubkey, created_at, kind and tags as f
ContentVariants(f) == {g \in EventFields : g.pubkey = f.pubkey /\ g.tags = f.tags}

\* the id strings tried for an event with fields f: the signer's id of f or of
\* f with another content, that id in upper case, with its last character
\* missing, and with a character that is no hex digit
IdChoices(f) ==
    {SignerId(g) : g \in ContentVariants(f)}
    \cup {ToUpper(SignerId(f)), DropLast(SignerId(f), 1), [SignerId(f) EXCEPT ![1] = "g"]}

\* the sig strings tried: the signer's signature of one of the signer ids, that
\* signature with its first or its last byte changed, and shortened by one
\* character or by one byte
SigChoices(f) ==
    UNION {
        LET sig == SignerSig(SignerId(g), f.pubkey)
        IN  {sig, FlipByte(sig, 1), FlipByte(sig, 64), DropLast(sig, 1), DropLast(sig, 2)}
        : g \in ContentVariants(f)}

Events ==
    UNION {
        [pubkey : {f.pubkey}, created_at : {f.created_at}, kind : {f.kind}, tags : {f.tags},
         content : {f.content}, id : IdChoices(f), sig : SigChoices(f)]
        : f \in EventFields}

\* the fields of an event that the id covers
FieldsOf(ev) == [pubkey |-> ev.pubkey, created_at |-> ev.created_at, kind |-> ev.kind,
                 tags |-> ev.tags, content |-> ev.content]

NoEvent == [pubkey |-> <<>>, created_at |-> 0, kind |-> 0, tags |-> <<>>, content |-> <<>>,
            id |-> <<>>, sig |-> <<>>]

\* no validation is running
ValIdle ==
    /\ event = NoEvent
    /\ verifyApi = "sync"
    /\ vpc = "idle"
    /\ pending = <<>>
    /\ hash = <<>>
    /\ idMatch = JsFalse
    /\ sigValid = JsFalse
    /\ errors = <<>>
    /\ sigTried = FALSE
    /\ vresult = <<>>

\* no concurrent calls, and the App is not running
AppIdle ==
    /\ calls = <<>>
    /\ currentView = "home"
    /\ parsedResult = Null
    /\ homeError = <<>>
    /\ mounted = <<>>
    /\ validations = {}
    /\ clipboard = <<>>
    /\ timers = <<>>
    /\ mounts = 0

\* parseInput is not running
ParIdle ==
    /\ input = <<>>
    /\ jsonOf = <<>>
    /\ bechOf = [ok |-> FALSE, data |-> <<>>]
    /\ ppc = "idle"
    /\ parsed = <<>>

\* no identifier is being decoded
DecIdle ==
    /\ identifier = [ok |-> FALSE, prefix |-> "", data |-> <<>>]
    /\ pc = "idle"
    /\ offset = 0
    /\ result = NewResult("")
    /\ returned = <<>>

-----------------------------------------------------------------------------
(* decodeBech32Identifier *)

Prefixes == {"npub", "nsec", "note", "nevent", "nprofile", "naddr", "lnurl"}

TLVPrefixes == {"nevent", "nprofile", "naddr"}

\* payloads of the size of a key or an event id (32 bytes), and one byte
\* shorter and longer
KeyPayloads == {Word32(9), Word32(73), SubSeq(Word32(9), 1, 31), Word32(9) \o <<7>>}

\* TLV payloads that hold one kind record with a value of up to MaxKindLen bytes
KindPayloads == {<<3, Len(v)>> \o v : v \in SeqsUpTo({0, 1, 128, 255}, MaxKindLen)}

\* TLV payloads with records of full size: a 32-byte special and author
\* value, relays, and an unknown record between them
FullPayloads ==
    {<<0, 32>> \o Word32(9),
     <<0, 32>> \o Word32(9) \o <<2, 32>> \o Word32(73),
     <<0, 32>> \o Word32(9) \o <<99, 2, 7, 7>> \o <<2, 32>> \o Word32(73),
     <<1, 2, 119, 115>> \o <<0, 32>> \o Word32(9) \o <<1, 1, 119>> \o <<1, 2, 119, 115>>,
     <<0, 31>> \o SubSeq(Word32(9), 1, 31) \o <<2, 1, 5>>}

\* UTF-8 of a string of code points below U+0800
RECURSIVE Utf8Encode(_)
Utf8Encode(str) ==
    IF str = <<>> THEN <<>>
    ELSE IF Head(str) < 128 THEN <<Head(str)>> \o Utf8Encode(Tail(str))
    ELSE <<192 + (Head(str) \div 64), 128 + (Head(str) % 64)>> \o Utf8Encode(Tail(str))

\* one TLV record: [type][length][value]
TLVRecord(type, value) == <<type, Len(value)>> \o value

RECURSIVE RelayRecords(_)
RelayRecords(relays) ==
    IF relays = <<>> THEN <<>>
    ELSE TLVRecord(1, Utf8Encode(Head(relays))) \o RelayRecords(Tail(relays))

\* The NIP-19 payload of a tuple: the special value, a record for each
\* relay, and the author, the kind (four bytes, big-endian) and the d tag
\* where the tuple has them.
EncodeTuple(t) ==
    TLVRecord(0, t.special)
    \o RelayRecords(t.relays)
    \o (IF t.author = <<>> THEN <<>> ELSE TLVRecord(2, t.author[1]))
    \o (IF t.kind = <<>> THEN <<>> ELSE TLVRecord(3, t.kind[1]))
    \o (IF t.dTag = <<>> THEN <<>> ELSE TLVRecord(4, Utf8Encode(t.dTag[1])))

\* relay and d-tag strings: "ws", "wss", and a string with a two-byte character
RelayWs == <<119, 115>>
RelayWss == <<119, 115, 115>>
RelayAccent == <<119, 233>>

Tuples ==
    [special : {Word32(9)},
     relays : {<<>>, <<RelayWs>>, <<RelayWs, RelayWs>>, <<RelayWss, RelayAccent, RelayWs>>},
     author : {<<>>, <<Word32(73)>>},
     kind : {<<>>, <<<<0, 0, 0, 1>>>>, <<<<0, 0, 117, 48>>>>, <<<<128, 0, 0, 0>>>>},
     dTag : {<<>>, <<<<>>>>, <<RelayAccent>>}]

TuplePayloads == {EncodeTuple(t) : t \in Tuples}

\* What bech32.decode(identifier, 1023) followed by bech32.fromWords(words)
\* gives for the argument: it throws (bad checksum, charset, padding), or it
\* yields a prefix and the payload bytes.
Identifiers ==
    {[ok |-> FALSE, prefix |-> "", data |-> <<>>]}
    \cup [ok : {TRUE}, prefix : Prefixes, data : SeqsUpTo(ByteVals, MaxLen) \cup KeyPayloads]
    \cup [ok : {TRUE}, prefix : TLVPrefixes, data : KindPayloads \cup FullPayloads \cup TuplePayloads]

InitDecode ==
    /\ identifier \in Identifiers
    /\ pc = "call"
    /\ offset = 0
    /\ result = NewResult("")
    /\ returned = <<>>
    /\ ValIdle
    /\ ParIdle
    /\ AppIdle

\* decodeBech32Identifier up to its return, or up to the entry of the loop of
\* decodeTLV for the three TLV prefixes
Decode ==
    /\ pc = "call"
    /\ IF ~identifier.ok
       THEN /\ returned' = <<Null>>
            /\ pc' = "done"
            /\ UNCHANGED <<offset, result>>
       ELSE CASE identifier.prefix = "npub" ->
                    /\ returned' = <<[type |-> "npub",
                                      data |-> [EmptyData EXCEPT !.pubkey = <<bytesToHex(identifier.data)>>],
                                      tlv |-> <<>>]>>
                    /\ pc' = "done"
                    /\ UNCHANGED <<offset, result>>
              [] identifier.prefix = "nsec" ->
                    /\ returned' = <<[type |-> "nsec",
                                      data |-> [EmptyData EXCEPT !.pubkey = <<bytesToHex(identifier.data)>>],
                                      tlv |-> <<>>]>>
                    /\ pc' = "done"
                    /\ UNCHANGED <<offset, result>>
              [] identifier.prefix = "note" ->
                    /\ returned' = <<[type |-> "note",
                                      data |-> [EmptyData EXCEPT !.id = <<bytesToHex(identifier.data)>>],
                                      tlv |-> <<>>]>>
                    /\ pc' = "done"
                    /\ UNCHANGED <<offset, result>>
              [] identifier.prefix \in {"nevent", "nprofile", "naddr"} ->
                    /\ result' = NewResult(identifier.prefix)
                    /\ offset' = 0
                    /\ pc' = "loop"
                    /\ UNCHANGED returned
              [] OTHER ->
                    /\ returned' = <<Null>>
                    /\ pc' = "done"
                    /\ UNCHANGED <<offset, result>>
    /\ UNCHANGED <<identifier, valVars, parVars, conVars, appVars>>

\* one iteration of `while (offset < data.length)`
TLVIterate ==
    /\ pc = "loop"
    /\ JsLess(offset, Len(identifier.data))
    /\ LET data == identifier.data
           entry == TLVEntry(data, offset)
           value == TLVValue(data, offset)
       IN  /\ result' = [result EXCEPT
                           !.tlv = Append(@, entry),
                           !.data = ParseTLVType(result.type, @, entry.type, value)]
           /\ offset' = NextOffset(offset, entry.length)
    /\ UNCHANGED <<identifier, pc, returned, valVars, parVars, conVars, appVars>>

\* the loop condition is false: decodeTLV returns result, and
\* decodeBech32Identifier returns it in turn
TLVReturn ==
    /\ pc = "loop"
    /\ ~JsLess(offset, Len(identifier.data))
    /\ returned' = <<result>>
    /\ pc' = "done"
    /\ UNCHANGED <<identifier, offset, result, valVars, parVars, conVars, appVars>>

NextDecode == Decode \/ TLVIterate \/ TLVReturn

SpecDecode == InitDecode /\ [][NextDecode]_vars

\* the decoder runs to completion once called: it is synchronous code
SpecDecodeLive == SpecDecode /\ WF_vars(NextDecode)

\* decodeTLV as a function of its arguments: the loop run from cursor off
\* with the identifier res built so far
RECURSIVE decodeTLVFrom(_, _, _)
decodeTLVFrom(data, off, res) ==
    IF ~JsLess(off, Len(data)) THEN res
    ELSE LET entry == TLVEntry(data, off)
         IN  decodeTLVFrom(data, NextOffset(off, entry.length),
                           [res EXCEPT !.tlv = Append(@, entry),
                                       !.data = ParseTLVType(res.type, @, entry.type, TLVValue(data, off))])

decodeTLV(type, data) == decodeTLVFrom(data, 0, NewResult(type))

\* the switch (prefix) of decodeBech32Identifier on a decoded prefix and payload
DecodePrefix(prefix, data) ==
    CASE prefix = "npub" -> [type |-> "npub", data |-> [EmptyData EXCEPT !.pubkey = <<bytesToHex(data)>>], tlv |-> <<>>]
      [] prefix = "nsec" -> [type |-> "nsec", data |-> [EmptyData EXCEPT !.pubkey = <<bytesToHex(data)>>], tlv |-> <<>>]
      [] prefix = "note" -> [type |-> "note", data |-> [EmptyData EXCEPT !.id = <<bytesToHex(data)>>], tlv |-> <<>>]
      [] prefix \in TLVPrefixes -> decodeTLV(prefix, data)
      [] OTHER -> Null

\* the try block of decodeBech32Identifier without its catch: an exception
\* of bech32.decode or bech32.fromWords leaves the function (threw)
decodeBech32Uncaught(o) ==
    IF ~o.ok THEN [threw |-> TRUE, value |-> Null]
    ELSE [threw |-> FALSE, value |-> DecodePrefix(o.prefix, o.data)]

\* decodeBech32Identifier as a function of what bech32.decode/fromWords give
\* for its argument: the catch block turns an exception into null
decodeBech32Identifier(o) ==
    IF ~o.ok THEN [threw |-> FALSE, value |-> Null]
    ELSE [threw |-> FALSE, value |-> DecodePrefix(o.prefix, o.data)]

\* the stepwise run and the function agree on what is returned
DecodeAgrees == pc = "done" => returned = <<decodeBech32Identifier(identifier).value>>

-----------------------------------------------------------------------------
(* validateEvent as a process: it suspends once, at `await sha256(...)` *)

\* The repository imports `schnorr` from @noble/secp256k1 and does not pin the
\* version. The releases that export `schnorr` differ in schnorr.verify:
\*   "async"       an async function: the call returns a promise at once;
\*   "sync"        returns a boolean, false for a malformed argument;
\*   "syncStrict"  returns a boolean, raises on a malformed argument.
VerifyApis == {"sync", "syncStrict", "async"}

InitValidate ==
    /\ DecIdle
    /\ ParIdle
    /\ AppIdle
    /\ event \in Events
    /\ verifyApi \in VerifyApis
    /\ vpc = "call"
    /\ pending = <<>>
    /\ hash = <<>>
    /\ idMatch = JsFalse
    /\ sigValid = JsFalse
    /\ errors = <<>>
    /\ sigTried = FALSE
    /\ vresult = <<>>

\* from the call to the suspension: errors, idMatch and sigValid are
\* initialised, the event is serialised and sha256 is called on its bytes
ValidateCall ==
    /\ vpc = "call"
    /\ pending' = Serialize(event)
    /\ vpc' = "awaitDigest"
    /\ UNCHANGED <<event, verifyApi, hash, idMatch, sigValid, errors, sigTried, vresult, decVars, parVars, conVars, appVars>>

\* the digest promise is fulfilled: the id comparison, the inner try block and
\* the return
DigestFulfilled ==
    /\ vpc = "awaitDigest"
    /\ LET computedId == bytesToHex(sha256(pending))
           im == JsBool(IdMatches(computedId, event.id))
           errs1 == IF Truthy(im) THEN <<>> ELSE <<IdMismatchError>>
           sc == SigCheck(event, verifyApi)
       IN  /\ hash' = <<sha256(pending)>>
           /\ idMatch' = im
           /\ sigValid' = sc.sigValid
           /\ errors' = errs1 \o sc.errors
           /\ sigTried' = TRUE
           /\ vresult' = <<ValidationResult(im, sc.sigValid, errs1 \o sc.errors)>>
    /\ vpc' = "done"
    /\ UNCHANGED <<event, verifyApi, pending, decVars, parVars, conVars, appVars>>

\* the digest promise is rejected (crypto.subtle is undefined outside a secure
\* context, which is how the nginx of the Dockerfile serves the page): the
\* outer catch block and the return
DigestRejected ==
    /\ vpc = "awaitDigest"
    /\ errors' = Append(errors, ValidationError("Cannot read properties of undefined (reading 'digest')"))
    /\ vresult' = <<ValidationResult(idMatch, sigValid, errors')>>
    /\ vpc' = "done"
    /\ UNCHANGED <<event, verifyApi, pending, hash, idMatch, sigValid, sigTried, decVars, parVars, conVars, appVars>>

NextValidate == ValidateCall \/ DigestFulfilled \/ DigestRejected

SpecValidate == InitValidate /\ [][NextValidate]_vars

-----------------------------------------------------------------------------
(* parseInput: strings *)

LowerLetters == <<"a", "b", "c", "d", "e", "f", "g", "h", "i", "j", "k", "l", "m",
                  "n", "o", "p", "q", "r", "s", "t", "u", "v", "w", "x", "y", "z">>

UpperLetters == <<"A", "B", "C", "D", "E", "F", "G", "H", "I", "J", "K", "L", "M",
                  "N", "O", "P", "Q", "R", "S", "T", "U", "V", "W", "X", "Y", "Z">>

DecimalDigits == {"0", "1", "2", "3", "4", "5", "6", "7", "8", "9"}

\* String.prototype.toLowerCase
toLowerCase(str) ==
    [i \in 1..Len(str) |->
        IF \E k \in 1..26 : UpperLetters[k] = str[i]
        THEN LowerLetters[CHOOSE k \in 1..26 : UpperLetters[k] = str[i]]
        ELSE str[i]]

\* String.prototype.toUpperCase
toUpperCase(str) ==
    [i \in 1..Len(str) |->
        IF \E k \in 1..26 : LowerLetters[k] = str[i]
        THEN UpperLetters[CHOOSE k \in 1..26 : LowerLetters[k] = str[i]]
        ELSE str[i]]

IsWhiteSpace(c) == c \in {" ", "\t", "\n"}

RECURSIVE TrimStart(_)
TrimStart(str) ==
    IF str # <<>> /\ IsWhiteSpace(Head(str)) THEN TrimStart(Tail(str)) ELSE str

RECURSIVE TrimEnd(_)
TrimEnd(str) ==
    IF str # <<>> /\ IsWhiteSpace(str[Len(str)]) THEN TrimEnd(SubSeq(str, 1, Len(str) - 1)) ELSE str

\* String.prototype.trim
trim(str) == TrimEnd(TrimStart(str))

\* String.prototype.startsWith
startsWith(str, p) == Len(str) >= Len(p) /\ SubSeq(str, 1, Len(p)) = p

\* String.prototype.substring(n), 0 <= n
substring(str, n) == IF n >= Len(str) THEN <<>> ELSE SubSeq(str, n + 1, Len(str))

\* String.prototype.lastIndexOf(c) for a character c
lastIndexOf(str, c) ==
    IF \E i \in 1..Len(str) : str[i] = c
    THEN (CHOOSE i \in 1..Len(str) : str[i] = c /\ \A j \in (i + 1)..Len(str) : str[j] # c) - 1
    ELSE 0 - 1

\* the alternatives of the group (npub|nsec|note|nevent|nprofile|naddr)
PatternPrefixes ==
    {<<"n", "p", "u", "b">>, <<"n", "s", "e", "c">>, <<"n", "o", "t", "e">>,
     <<"n", "e", "v", "e", "n", "t">>, <<"n", "p", "r", "o", "f", "i", "l", "e">>,
     <<"n", "a", "d", "d", "r">>}

\* the character class [02-9ac-hj-np-z]
PatternClass ==
    {"0", "2", "3", "4", "5", "6", "7", "8", "9",
     "a", "c", "d", "e", "f", "g", "h", "j", "k", "l", "m", "n",
     "p", "q", "r", "s", "t", "u", "v", "w", "x", "y", "z"}

\* trimmed.match(/^(npub|nsec|note|nevent|nprofile|naddr)1[02-9ac-hj-np-z]+$/)
MatchesBech32Pattern(str) ==
    \E p \in PatternPrefixes :
        /\ startsWith(str, p \o <<"1">>)
        /\ Len(str) > Len(p) + 1
        /\ \A i \in (Len(p) + 2)..Len(str) : str[i] \in PatternClass

NostrScheme == <<"n", "o", "s", "t", "r", ":">>

\* trimmed.match(/^[0-9a-f]{64}$/i)
MatchesHex64(str) == Len(str) = 64 /\ \A i \in 1..64 : HexValue(str[i]) # Undefined

-----------------------------------------------------------------------------
(* parseInput: the two library calls, bech32.decode and JSON.parse *)

\* the bech32 alphabet "qpzry9x8gf2tvdw0s3jn54khce6mua7l"
Bech32Alphabet ==
    {"q", "p", "z", "r", "y", "9", "x", "8", "g", "f", "2", "t", "v", "d", "w", "0",
     "s", "3", "j", "n", "5", "4", "k", "h", "c", "e", "6", "m", "u", "a", "7", "l"}

\* The checks bech32.decode(str, 1023) makes on the shape of str before it
\* computes the checksum: length, one case, a separator "1" after a prefix,
\* and at least six characters of the alphabet after the last "1".
Bech32WellFormed(str) ==
    LET lowered == toLowerCase(str)
        sepIndex == lastIndexOf(lowered, "1")
    IN  /\ Len(str) >= 8
        /\ Len(str) <= 1023
        /\ (str = lowered \/ str = toUpperCase(str))
        /\ sepIndex > 0
        /\ Len(str) - (sepIndex + 1) >= 6
        /\ \A i \in (sepIndex + 2)..Len(str) : lowered[i] \in Bech32Alphabet

\* the prefix bech32.decode returns: the lower-cased part before the last "1"
Bech32Prefix(str) == SubSeq(toLowerCase(str), 1, lastIndexOf(toLowerCase(str), "1"))

\* the name of a prefix as the decoder's switch compares it
PrefixName(chars) ==
    CASE chars = <<"n", "p", "u", "b">> -> "npub"
      [] chars = <<"n", "s", "e", "c">> -> "nsec"
      [] chars = <<"n", "o", "t", "e">> -> "note"
      [] chars = <<"n", "e", "v", "e", "n", "t">> -> "nevent"
      [] chars = <<"n", "p", "r", "o", "f", "i", "l", "e">> -> "nprofile"
      [] chars = <<"n", "a", "d", "d", "r">> -> "naddr"
      [] chars = <<"l", "n", "u", "r", "l">> -> "lnurl"
      [] OTHER -> "other"

\* What bech32.decode(str, 1023) and bech32.fromWords give for str. The
\* shape of str is checked as the library checks it; whether the checksum and
\* the padding are right, and which bytes the words hold, is oracle (the
\* checksum arithmetic is not modelled).
Bech32Decode(str, oracle) ==
    IF Bech32WellFormed(str) /\ oracle.ok
    THEN [ok |-> TRUE, prefix |-> PrefixName(Bech32Prefix(str)), data |-> oracle.data]
    ELSE [ok |-> FALSE, prefix |-> "", data |-> <<>>]

\* A JSON value, as far as isValidEventStructure looks at it: its kind t
\* ("undefined" for a property that is absent), and for an array the kinds
\* of its elements.
JsVal(t) == [t |-> t, elems |-> <<>>]
JsArray(elems) == [t |-> "array", elems |-> elems]

FieldNames == {"id", "pubkey", "created_at", "kind", "tags", "content", "sig"}

NoFields == [f \in FieldNames |-> JsVal("undefined")]

\* a parsed JSON document: its kind, whether it is falsy (0, "", false,
\* null), and for an object its properties
JsDoc(t, falsy) == [t |-> t, falsy |-> falsy, fields |-> NoFields]
JsObject(fields) == [t |-> "object", falsy |-> FALSE, fields |-> fields]

\* the typeof operator
typeof(v) == IF v.t \in {"array", "null", "object"} THEN "object" ELSE v.t

\* obj.name for a truthy obj
Property(obj, name) == IF obj.t = "object" THEN obj.fields[name] ELSE JsVal("undefined")

\* the && chain of isValidEventStructure, read as a condition
isValidEventStructure(obj) ==
    /\ ~obj.falsy
    /\ typeof(Property(obj, "id")) = "string"
    /\ typeof(Property(obj, "pubkey")) = "string"
    /\ typeof(Property(obj, "created_at")) = "number"
    /\ typeof(Property(obj, "kind")) = "number"
    /\ Property(obj, "tags").t = "array"
    /\ typeof(Property(obj, "content")) = "string"
    /\ typeof(Property(obj, "sig")) = "string"

-----------------------------------------------------------------------------
(* parseInput *)

\* what a step of parseInput does: it returns a value, it goes on to the
\* next step, or an exception leaves the function
Return(v) == [threw |-> FALSE, ret |-> <<v>>]
NoReturn == [threw |-> FALSE, ret |-> <<>>]
Throw == [threw |-> TRUE, ret |-> <<>>]

\* the try block around JSON.parse
StepJson(json) ==
    IF json # <<>> /\ isValidEventStructure(json[1])
    THEN Return([type |-> "event", data |-> json[1]])
    ELSE NoReturn

\* a step that returns what the decoder gave without the test `if (decoded)`
DecodeStepNoNullCheck(str, oracle) ==
    LET decoded == decodeBech32Identifier(Bech32Decode(str, oracle))
    IN  IF decoded.threw THEN Throw
        ELSE Return([type |-> "identifier", data |-> decoded.value])

\* const decoded = decodeBech32Identifier(str); if (decoded) return {...}
DecodeStep(str, oracle) ==
    LET decoded == decodeBech32Identifier(Bech32Decode(str, oracle))
    IN  IF decoded.threw THEN Throw
        ELSE IF decoded.value.type # "null" THEN Return([type |-> "identifier", data |-> decoded.value])
        ELSE NoReturn

StepBech32(trimmed, oracle) ==
    IF MatchesBech32Pattern(trimmed) THEN DecodeStep(trimmed, oracle) ELSE NoReturn

StepNostrUri(trimmed, oracle) ==
    IF startsWith(trimmed, NostrScheme) THEN DecodeStep(substring(trimmed, 6), oracle) ELSE NoReturn

\* a last step that keeps the case of the input
StepHexKeepCase(trimmed) ==
    IF MatchesHex64(trimmed)
    THEN Return([type |-> "identifier",
                 data |-> [type |-> "note", data |-> [EmptyData EXCEPT !.id = <<trimmed>>], tlv |-> <<>>]])
    ELSE NoReturn

StepHex(trimmed) ==
    IF MatchesHex64(trimmed)
    THEN Return([type |-> "identifier",
                 data |-> [type |-> "note", data |-> [EmptyData EXCEPT !.id = <<toLowerCase(trimmed)>>], tlv |-> <<>>]])
    ELSE NoReturn

\* the first of the steps that returns or throws decides; null after the last
RECURSIVE FirstOf(_)
FirstOf(steps) ==
    IF steps = <<>> THEN [threw |-> FALSE, value |-> Null]
    ELSE IF Head(steps).threw THEN [threw |-> TRUE, value |-> Null]
    ELSE IF Head(steps).ret # <<>> THEN [threw |-> FALSE, value |-> Head(steps).ret[1]]
    ELSE FirstOf(Tail(steps))

\* parseInput(inp), where json is what JSON.parse gives for the trimmed
\* input and oracle what the bech32 checksum gives for the identifier in it
parseInput(inp, json, oracle) ==
    LET trimmed == trim(inp)
    IN  FirstOf(<<StepJson(json), StepBech32(trimmed, oracle),
                  StepNostrUri(trimmed, oracle), StepHex(trimmed)>>)

-----------------------------------------------------------------------------
(* parseInput: the inputs of the model *)

Rep(c, n) == [i \in 1..n |-> c]

Hrps == PatternPrefixes \cup {<<"l", "n", "u", "r", "l">>}

\* data parts: long enough for a checksum, too short, and with a character
\* that is not of the alphabet
DataParts == {Rep("q", 8), Rep("q", 4), <<"q", "q", "b", "q", "q", "q", "q", "q">>}

BechTexts ==
    {h \o <<"1">> \o d : h \in Hrps, d \in DataParts}
    \cup {toUpperCase(h \o <<"1">> \o Rep("q", 8)) : h \in {<<"n", "p", "u", "b">>, <<"n", "e", "v", "e", "n", "t">>}}
    \cup {<<"N", "p", "u", "b", "1">> \o Rep("q", 8)}

HexTexts ==
    {Rep("a", 64), Rep("A", 64), Rep("7", 64),
     Rep("a", 32) \o Rep("B", 32), Rep("a", 63), Rep("a", 65), Rep("a", 63) \o <<"g">>}

ObjectText == <<"{", "}">>

OtherTexts ==
    {<<>>, <<" ">>, <<"h", "e", "l", "l", "o">>, <<"4", "2">>, <<"0">>,
     <<"n", "u", "l", "l">>, <<"[", "]">>, <<"{">>, ObjectText}

UriTexts ==
    {NostrScheme \o b : b \in BechTexts} \cup {NostrScheme, NostrScheme \o Rep("a", 64)}

Texts ==
    LET bare == BechTexts \cup UriTexts \cup HexTexts \cup OtherTexts
    IN  bare \cup {<<" ">> \o t \o <<"\n">> : t \in bare}

\* the properties of a well-formed event
EventProperties ==
    [f \in FieldNames |->
        CASE f \in {"created_at", "kind"} -> JsVal("number")
          [] f = "tags" -> JsArray(<<>>)
          [] OTHER -> JsVal("string")]

\* objects: a well-formed event with one property of another kind or
\* absent, and events whose tags hold elements of several kinds
Objects ==
    {JsObject([EventProperties EXCEPT ![f] = JsVal(t)]) :
        f \in FieldNames, t \in {"undefined", "null", "string", "number", "boolean", "object"}}
    \cup {JsObject([EventProperties EXCEPT !["tags"] = JsArray(e)]) :
            e \in {<<>>, <<"array">>, <<"array", "array">>, <<"string">>, <<"array", "number">>, <<"object">>}}
    \cup {JsObject([EventProperties EXCEPT ![f] = JsArray(<<>>)]) : f \in FieldNames}

IsDecimal(str) ==
    /\ str # <<>>
    /\ \A i \in 1..Len(str) : str[i] \in DecimalDigits
    /\ (Len(str) > 1 => str[1] # "0")

\* what JSON.parse can give for the text: <<>> when it throws
JsonOutcomes(str) ==
    CASE str = ObjectText -> {<<o>> : o \in Objects}
      [] IsDecimal(str) -> {<<JsDoc("number", str = <<"0">>)>>}
      [] str = <<"n", "u", "l", "l">> -> {<<JsDoc("null", TRUE)>>}
      [] str = <<"[", "]">> -> {<<JsDoc("array", FALSE)>>}
      [] OTHER -> {<<>>}

\* the text decodeBech32Identifier is called with, if it is called
DecodeArgument(trimmed) ==
    IF MatchesBech32Pattern(trimmed) THEN <<trimmed>>
    ELSE IF startsWith(trimmed, NostrScheme) THEN <<substring(trimmed, 6)>>
    ELSE <<>>

NoOracle == [ok |-> FALSE, data |-> <<>>]

\* what the checksum and the words of a well-formed bech32 string can give
Oracles ==
    {NoOracle} \cup [ok : {TRUE}, data : {<<>>, Word32(9), Word32(73), <<0, 2, 7>>} \cup FullPayloads]

BechOutcomes(trimmed) ==
    IF DecodeArgument(trimmed) # <<>> /\ Bech32WellFormed(DecodeArgument(trimmed)[1])
    THEN Oracles ELSE {NoOracle}

InitParse ==
    /\ input \in Texts
    /\ jsonOf \in JsonOutcomes(trim(input))
    /\ bechOf \in BechOutcomes(trim(input))
    /\ ppc = "call"
    /\ parsed = <<>>
    /\ DecIdle
    /\ ValIdle
    /\ AppIdle

\* a call of parseInput, from entry to return
ParseInput ==
    /\ ppc = "call"
    /\ parsed' = <<parseInput(input, jsonOf, bechOf)>>
    /\ ppc' = "done"
    /\ UNCHANGED <<input, jsonOf, bechOf, decVars, valVars, conVars, appVars>>

NextParse == ParseInput

SpecParse == InitParse /\ [][NextParse]_vars

-----------------------------------------------------------------------------
(* validateEvent called several times: the calls interleave at `await sha256` *)

CallIds == 1..MaxCalls

\* the events the concurrent calls are made on: the first event text with
\* its signer's id or that id in upper case, and with the signer's signature
\* or that signature without its last character
ConEvents ==
    {ev \in Events :
        /\ ev.pubkey = PubkeyA /\ ev.tags = <<>> /\ ev.content = Contents[1]
        /\ ev.id \in {SignerId(FieldsOf(ev)), ToUpper(SignerId(FieldsOf(ev)))}
        /\ ev.sig \in {SignerSig(SignerId(FieldsOf(ev)), ev.pubkey),
                       DropLast(SignerSig(SignerId(FieldsOf(ev)), ev.pubkey), 1)}}

\* a call that has not been made
NoCall ==
    [status |-> "idle", event |-> NoEvent, pending |-> <<>>, hash |-> <<>>,
     idMatch |-> JsFalse, sigValid |-> JsFalse, errors |-> <<>>, result |-> <<>>]

\* the errors of the first n calls, one after the other
RECURSIVE ErrorsOfCalls(_, _)
ErrorsOfCalls(cs, n) == IF n = 0 THEN <<>> ELSE ErrorsOfCalls(cs, n - 1) \o cs[n].errors

\* an errors array that the calls share
SharedErrors(cs) == ErrorsOfCalls(cs, Len(cs))

\* const errors: string[] = []: an array of the call's own, whatever the
\* other calls cs hold
NewErrors(cs) == <<>>

InitConcurrent ==
    /\ calls = [c \in CallIds |-> NoCall]
    /\ verifyApi \in VerifyApis
    /\ event = NoEvent
    /\ vpc = "idle"
    /\ pending = <<>>
    /\ hash = <<>>
    /\ idMatch = JsFalse
    /\ sigValid = JsFalse
    /\ errors = <<>>
    /\ sigTried = FALSE
    /\ vresult = <<>>
    /\ DecIdle
    /\ ParIdle
    /\ currentView = "home"
    /\ parsedResult = Null
    /\ homeError = <<>>
    /\ mounted = <<>>
    /\ validations = {}
    /\ clipboard = <<>>
    /\ timers = <<>>
    /\ mounts = 0

\* call c is made on ev and runs to its suspension at `await sha256(...)`
ConCall(c, ev) ==
    /\ calls[c].status = "idle"
    /\ calls' = [calls EXCEPT ![c] =
                    [NoCall EXCEPT !.status = "awaitDigest",
                                   !.event = ev,
                                   !.errors = NewErrors(calls),
                                   !.pending = Serialize(ev)]]
    /\ UNCHANGED <<decVars, valVars, parVars, appVars>>

\* the digest promise of call c is fulfilled: c runs to its return
ConDigestFulfilled(c) ==
    /\ calls[c].status = "awaitDigest"
    /\ LET call == calls[c]
           computedId == bytesToHex(sha256(call.pending))
           im == JsBool(IdMatches(computedId, call.event.id))
           errs1 == IF Truthy(im) THEN call.errors ELSE Append(call.errors, IdMismatchError)
           sc == SigCheck(call.event, verifyApi)
       IN  calls' = [calls EXCEPT ![c] =
                       [call EXCEPT !.status = "done",
                                    !.hash = <<sha256(call.pending)>>,
                                    !.idMatch = im,
                                    !.sigValid = sc.sigValid,
                                    !.errors = errs1 \o sc.errors,
                                    !.result = <<ValidationResult(im, sc.sigValid, errs1 \o sc.errors)>>]]
    /\ UNCHANGED <<decVars, valVars, parVars, appVars>>

\* the digest promise of call c is rejected: the outer catch and the return
ConDigestRejected(c) ==
    /\ calls[c].status = "awaitDigest"
    /\ LET call == calls[c]
           errs == Append(call.errors, ValidationError("Cannot read properties of undefined (reading 'digest')"))
       IN  calls' = [calls EXCEPT ![c] =
                       [call EXCEPT !.status = "done",
                                    !.errors = errs,
                                    !.result = <<ValidationResult(call.idMatch, call.sigValid, errs)>>]]
    /\ UNCHANGED <<decVars, valVars, parVars, appVars>>

NextConcurrent ==
    \E c \in CallIds :
        \/ \E ev \in ConEvents : ConCall(c, ev)
        \/ ConDigestFulfilled(c)
        \/ ConDigestRejected(c)

SpecConcurrent == InitConcurrent /\ [][NextConcurrent]_vars

-----------------------------------------------------------------------------
(* The App: Homepage, EventInspector and IdentifierDecoder *)

\* validateEvent as a function of the event, the build's schnorr.verify and
\* whether the digest promise is fulfilled
validateEvent(ev, api, fulfilled) ==
    IF fulfilled
    THEN LET im == JsBool(IdMatches(bytesToHex(sha256(Serialize(ev))), ev.id))
             errs1 == IF Truthy(im) THEN <<>> ELSE <<IdMismatchError>>
             sc == SigCheck(ev, api)
         IN  ValidationResult(im, sc.sigValid, errs1 \o sc.errors)
    ELSE ValidationResult(JsFalse, JsFalse,
                          <<ValidationError("Cannot read properties of undefined (reading 'digest')")>>)

\* what parseInput can return to handleSubmit: null, an event, an identifier
SubmitOutcomes ==
    {Null}
    \cup {[type |-> "event", data |-> ev] : ev \in ConEvents}
    \cup {[type |-> "identifier", data |-> DecodePrefix("npub", Word32(9))]}

\* the fields with a copy button
CopyFields == {"id", "sig"}

\* a view that does not look at the type of the result
ViewOfAnyResult(r) == "inspect"

\* handleParsedResult: the view for a result
ViewOf(r) == IF r.type = "event" THEN "inspect" ELSE "decode"

\* the state of a component at its mount: EventInspector starts with
\* isValidating true, IdentifierDecoder has no validation state
NewComponent(inst, view) ==
    [inst |-> inst, view |-> view, validation |-> <<>>, isValidating |-> (view = "inspect"),
     copiedField |-> <<>>]

\* a state update reaches whatever component is on screen
DeliversToAny(inst, m) == m # <<>>

\* a state update of the component instance inst takes effect only while
\* that instance is mounted
Delivers(inst, m) == m # <<>> /\ m[1].inst = inst

RemoveAt(seq, i) == SubSeq(seq, 1, i - 1) \o SubSeq(seq, i + 1, Len(seq))

InitApp ==
    /\ AppIdle
    /\ DecIdle
    /\ ParIdle
    /\ verifyApi \in VerifyApis
    /\ event = NoEvent
    /\ vpc = "idle"
    /\ pending = <<>>
    /\ hash = <<>>
    /\ idMatch = JsFalse
    /\ sigValid = JsFalse
    /\ errors = <<>>
    /\ sigTried = FALSE
    /\ vresult = <<>>

\* Homepage.handleSubmit on an input that is blank
SubmitBlank ==
    /\ currentView = "home"
    /\ homeError' = <<"Please enter some data to decode">>
    /\ UNCHANGED <<currentView, parsedResult, mounted, validations, clipboard, timers, mounts>>
    /\ UNCHANGED <<decVars, valVars, parVars, conVars>>

\* Homepage.handleSubmit on an input for which parseInput returns outcome:
\* null sets the error; a result goes to handleParsedResult, the Homepage
\* is replaced by a new EventInspector or IdentifierDecoder, and the effect of
\* a new EventInspector calls validate()
Submit(outcome) ==
    /\ currentView = "home"
    /\ IF outcome = Null
       THEN /\ homeError' = <<"Unable to parse input. Please check the format and try again.">>
            /\ UNCHANGED <<currentView, parsedResult, mounted, validations, mounts>>
       ELSE /\ mounts < MaxMounts
            /\ parsedResult' = outcome
            /\ currentView' = ViewOf(outcome)
            /\ homeError' = <<>>
            /\ mounts' = mounts + 1
            /\ mounted' = <<NewComponent(mounts + 1, ViewOf(outcome))>>
            /\ validations' =
                  IF ViewOf(outcome) = "inspect" /\ outcome.type = "event"
                  THEN validations \cup {[inst |-> mounts + 1, event |-> outcome.data]}
                  ELSE validations
    /\ UNCHANGED <<clipboard, timers>>
    /\ UNCHANGED <<decVars, valVars, parVars, conVars>>

\* goHome, from the header button or the back button of a component
GoHome ==
    /\ currentView' = "home"
    /\ parsedResult' = Null
    /\ mounted' = <<>>
    /\ homeError' = IF currentView = "home" THEN homeError ELSE <<>>
    /\ UNCHANGED <<validations, clipboard, timers, mounts>>
    /\ UNCHANGED <<decVars, valVars, parVars, conVars>>

\* the validateEvent promise a validate() call awaits settles:
\* setValidation(result); setIsValidating(false)
ValidationSettles(v, fulfilled) ==
    /\ v \in validations
    /\ validations' = validations \ {v}
    /\ mounted' =
          IF Delivers(v.inst, mounted)
          THEN <<[mounted[1] EXCEPT !.validation = <<validateEvent(v.event, verifyApi, fulfilled)>>,
                                    !.isValidating = FALSE]>>
          ELSE mounted
    /\ UNCHANGED <<currentView, parsedResult, homeError, clipboard, timers, mounts>>
    /\ UNCHANGED <<decVars, valVars, parVars, conVars>>

\* handleCopy up to `await copyToClipboard(text)`
CopyClick(field) ==
    /\ mounted # <<>>
    /\ Len(clipboard) + Len(timers) < MaxCopies
    /\ clipboard' = Append(clipboard, [inst |-> mounted[1].inst, field |-> field])
    /\ UNCHANGED <<currentView, parsedResult, homeError, mounted, validations, timers, mounts>>
    /\ UNCHANGED <<decVars, valVars, parVars, conVars>>

\* the clipboard promise of the i-th waiting handleCopy is fulfilled:
\* setCopiedField(field); setTimeout(() => setCopiedField(null), 2000)
ClipboardFulfilled(i) ==
    /\ i \in 1..Len(clipboard)
    /\ clipboard' = RemoveAt(clipboard, i)
    /\ timers' = Append(timers, [inst |-> clipboard[i].inst])
    /\ mounted' =
          IF Delivers(clipboard[i].inst, mounted)
          THEN <<[mounted[1] EXCEPT !.copiedField = <<clipboard[i].field>>]>>
          ELSE mounted
    /\ UNCHANGED <<currentView, parsedResult, homeError, validations, mounts>>
    /\ UNCHANGED <<decVars, valVars, parVars, conVars>>

\* the clipboard promise is rejected: the catch block logs the error
ClipboardRejected(i) ==
    /\ i \in 1..Len(clipboard)
    /\ clipboard' = RemoveAt(clipboard, i)
    /\ UNCHANGED <<currentView, parsedResult, homeError, mounted, validations, timers, mounts>>
    /\ UNCHANGED <<decVars, valVars, parVars, conVars>>

\* the oldest timer fires (all timers run 2000 ms): setCopiedField(null)
TimerFires ==
    /\ timers # <<>>
    /\ timers' = Tail(timers)
    /\ mounted' =
          IF Delivers(Head(timers).inst, mounted)
          THEN <<[mounted[1] EXCEPT !.copiedField = <<>>]>>
          ELSE mounted
    /\ UNCHANGED <<currentView, parsedResult, homeError, validations, clipboard, mounts>>
    /\ UNCHANGED <<decVars, valVars, parVars, conVars>>

NextApp ==
    \/ SubmitBlank
    \/ \E outcome \in SubmitOutcomes : Submit(outcome)
    \/ GoHome
    \/ \E v \in validations, fulfilled \in BOOLEAN : ValidationSettles(v, fulfilled)
    \/ \E field \in CopyFields : CopyClick(field)
    \/ \E i \in 1..Len(clipboard) : ClipboardFulfilled(i)
    \/ \E i \in 1..Len(clipboard) : ClipboardRejected(i)
    \/ TimerFires

SpecApp == InitApp /\ [][NextApp]_vars

-----------------------------------------------------------------------------
(* Claims about the TLV decoder, under SpecDecode *)

\* NIP-19: a TLV payload is a concatenation of records [type][length][value of
\* length bytes]; it is truncated when some record lacks its length byte or
\* part of its value
RECURSIVE WellFormedTLV(_)
WellFormedTLV(data) ==
    \/ data = <<>>
    \/ /\ Len(data) >= 2
       /\ 2 + data[2] <= Len(data)
       /\ WellFormedTLV(SubSeq(data, 3 + data[2], Len(data)))

\* decodeBech32Identifier has returned for a TLV identifier that bech32-decodes
DecodedTLV == pc = "done" /\ identifier.ok /\ identifier.prefix \in TLVPrefixes

\* the byte offset at which record number i of tlv starts, by its predecessors' lengths
RECURSIVE RecordOffset(_, _)
RecordOffset(tlv, i) ==
    IF i = 1 THEN 0
    ELSE JsAdd(RecordOffset(tlv, i - 1), JsAdd(2, tlv[i - 1].length))

\* the sum of 2 + length over the records
ChunkSum(tlv) == IF tlv = <<>> THEN 0 ELSE JsAdd(RecordOffset(tlv, Len(tlv)), JsAdd(2, tlv[Len(tlv)].length))

\* C1: decoding an nevent/nprofile/naddr identifier whose TLV payload is
\* truncated fails as a whole: null is returned, never an identifier.
C1_TruncatedPayloadFails ==
    (DecodedTLV /\ ~WellFormedTLV(identifier.data)) => returned = <<Null>>

\* C2: the records of a returned TLV identifier tile the payload: every
\* record's 2 + length bytes lie inside the payload, and the sum of 2 + length
\* over the records is the payload length.
C2_RecordsTilePayload ==
    (DecodedTLV /\ returned # <<Null>>) =>
        LET tlv == returned[1].tlv
        IN  /\ \A i \in 1..Len(tlv) :
                  /\ tlv[i].length # Undefined
                  /\ JsAdd(RecordOffset(tlv, i), 2 + tlv[i].length) <= Len(identifier.data)
            /\ ChunkSum(tlv) = Len(identifier.data)

\* C3: the records of a returned TLV identifier are in byte-offset order of the
\* payload (record i is the record that starts where record i - 1 ends), and
\* each length is a byte that equals the number of bytes in the hex value.
C3_OrderAndLength ==
    (DecodedTLV /\ returned # <<Null>>) =>
        LET tlv == returned[1].tlv
        IN  \A i \in 1..Len(tlv) :
                /\ RecordOffset(tlv, i) # NaN
                /\ tlv[i].type = At(identifier.data, RecordOffset(tlv, i))
                /\ tlv[i].length \in 0..255
                /\ 2 * tlv[i].length = Len(tlv[i].value)

-----------------------------------------------------------------------------
(* Claims about validateEvent, under SpecValidate *)

ValDone == vpc = "done"

JsBooleans == {JsTrue, JsFalse}

Range(seq) == {seq[i] : i \in 1..Len(seq)}

\* the id validateEvent recomputed, once the digest is there
ComputedId == bytesToHex(hash[1])

\* two strings of the same length that differ in exactly one place
OneApart(a, b) == Len(a) = Len(b) /\ Cardinality({i \in 1..Len(a) : a[i] # b[i]}) = 1

\* the event carries the signer's signature of its id with exactly one byte changed
OneSigByteChanged ==
    \E n \in 1..64 : event.sig = FlipByte(SignerSig(event.id, event.pubkey), n)

\* the event is what a correct signer made of some event, with exactly one
\* byte of content changed afterwards
OneContentByteChanged ==
    \E g \in ContentVariants(FieldsOf(event)) :
        /\ OneApart(g.content, event.content)
        /\ event.id = SignerId(g)
        /\ event.sig = SignerSig(event.id, event.pubkey)

\* the event is what a correct signer made: its id is the SHA-256 of the
\* NIP-01 text and its sig is the signature of that id under pubkey
SignedCorrectly ==
    /\ event.id = SignerId(FieldsOf(event))
    /\ event.sig = SignerSig(event.id, event.pubkey)

\* C4: every returned ValidationResult has isValid = (idMatch and sigValid and
\* errors is empty), isValid, idMatch and sigValid each being a boolean.
C4_IsValidInvariant ==
    ValDone =>
        LET r == vresult[1]
        IN  /\ {r.isValid, r.idMatch, r.sigValid} \subseteq JsBooleans
            /\ r.isValid = JsBool(r.idMatch = JsTrue /\ r.sigValid = JsTrue /\ r.errors = <<>>)

\* C5: for an event whose id equals the recomputed hash and whose sig is a valid
\* signature with exactly one byte changed, the result has idMatch = true,
\* sigValid = false and isValid = false.
C5_BrokenSignature ==
    (ValDone /\ hash # <<>> /\ event.id = ComputedId /\ OneSigByteChanged) =>
        LET r == vresult[1]
        IN  r.idMatch = JsTrue /\ r.sigValid = JsFalse /\ r.isValid = JsFalse

\* C6: in every call the signature verification is attempted whatever happened
\* in the id step, and idMatch and sigValid are both reported.
C6_BothChecksAttempted ==
    ValDone => (sigTried /\ vresult[1].idMatch = idMatch /\ vresult[1].sigValid = sigValid)

\* C7 as stated: idMatch compares the two ids after both are put in lower case,
\* so the correct hash written in upper case gives idMatch = true.
C7_NormalizedIdComparison ==
    (ValDone /\ hash # <<>>) =>
        /\ vresult[1].idMatch = JsBool(ToLower(event.id) = ToLower(ComputedId))
        /\ (event.id = ToUpper(ComputedId) => vresult[1].idMatch = JsTrue)

\* C7 as amended: idMatch compares the recomputed lower-case id with event.id
\* exactly as given, so the correct hash written with upper-case digits gives
\* idMatch = false.
C7_ExactIdComparison ==
    /\ (ValDone /\ hash # <<>>) => vresult[1].idMatch = JsBool(event.id = ComputedId)
    /\ (ValDone /\ event.id = ToUpper(SignerId(FieldsOf(event))) /\ event.id # SignerId(FieldsOf(event)))
           => vresult[1].idMatch = JsFalse

C7_Witness ==
    /\ ValDone
    /\ hash # <<>>
    /\ event.id = ToUpper(ComputedId)
    /\ event.id # ComputedId
    /\ vresult[1].idMatch = JsFalse

C9_ContentMutation ==
    (ValDone /\ OneContentByteChanged) =>
        LET r == vresult[1]
        IN  /\ r.idMatch = JsFalse
            /\ r.isValid = JsFalse
            /\ IdMismatchError \in Range(r.errors)
            /\ sigTried
            /\ r.sigValid = JsBool(SchnorrVerifies(hexToBytes(event.sig), hexToBytes(event.id),
                                                   hexToBytes(event.pubkey)))

-----------------------------------------------------------------------------
(* Further claims about the decoder, under SpecDecode *)

\* the base-256 digits of a natural number, most significant first (none for 0)
RECURSIVE Base256(_)
Base256(n) == IF n = 0 THEN <<>> ELSE Append(Base256(n \div 256), n % 256)

RECURSIVE StripLeadingZeros(_)
StripLeadingZeros(bytes) ==
    IF bytes # <<>> /\ Head(bytes) = 0 THEN StripLeadingZeros(Tail(bytes)) ELSE bytes

\* C17: the kind decoded from a record of type 3 is the big-endian unsigned
\* integer its value bytes denote (the fold result = result * 256 + byte),
\* whatever the length of the value: it is not negative and its base-256
\* digits are the value bytes without leading zeros.
C17_KindIsUnsignedBigEndian ==
    (DecodedTLV /\ identifier.data \in KindPayloads) =>
        LET value == SubSeq(identifier.data, 3, Len(identifier.data))
            kind == returned[1].data.kind[1]
        IN  kind >= 0 /\ Base256(kind) = StripLeadingZeros(value)
\* the bytes of the payload that follow the two header bytes of the record
\* at offset off, as far as the length byte announces them and they exist
PresentValue(data, off) ==
    LET len == IF off + 1 < Len(data) THEN data[off + 2] ELSE 0
        last == IF off + 2 + len > Len(data) THEN Len(data) ELSE off + 2 + len
    IN  SubSeq(data, off + 3, last)

\* C18: an iteration on a record whose type code is not 0..4 appends the
\* record as it stands in the payload (type, length, value) under the name
\* unknown(<type>) and leaves id, pubkey, author, kind, dTag and relays as
\* they were.
C18_UnknownTypeFrame ==
    [][(pc = "loop" /\ Len(result'.tlv) = Len(result.tlv) + 1 /\ identifier.data[offset + 1] \notin 0..4) =>
          LET entry == result'.tlv[Len(result'.tlv)]
          IN  /\ result'.data = result.data
              /\ SubSeq(result'.tlv, 1, Len(result.tlv)) = result.tlv
              /\ entry.type = identifier.data[offset + 1]
              /\ entry.typeName = <<"unknown", entry.type>>
              /\ entry.length = (IF offset + 1 < Len(identifier.data) THEN identifier.data[offset + 2] ELSE Undefined)
              /\ entry.value = bytesToHex(PresentValue(identifier.data, offset))]_vars

C18_Witness ==
    /\ DecodedTLV
    /\ returned # <<Null>>
    /\ \E i \in 1..Len(returned[1].tlv) :
          /\ returned[1].tlv[i].type = 99
          /\ returned[1].tlv[i].typeName = <<"unknown", 99>>
          /\ returned[1].tlv[i].length = 2
          /\ returned[1].tlv[i].value = <<"0", "7", "0", "7">>
    /\ returned[1].data.dTag = <<>>
    /\ returned[1].data.author # <<>>
\* the lower-case hex text of a byte sequence: two digits per byte
LowerHex(bytes) ==
    [i \in 1..(2 * Len(bytes)) |->
        LET b == bytes[(i + 1) \div 2]
        IN  HexDigits[(IF i % 2 = 1 THEN b \div 16 ELSE b % 16) + 1]]

SixPrefixes == {"npub", "nsec", "note", "nevent", "nprofile", "naddr"}

\* C19: for a 32-byte value v, the npub encoding of v decodes to type npub with
\* pubkey the lower-case hex of v and no other field, the note encoding of v
\* to type note with id the lower-case hex of v and no other field, and a
\* string that bech32-decodes with any other prefix than the six gives no
\* identifier.
C19_KeyRoundTrip ==
    (pc = "done" /\ identifier.ok) =>
        /\ (identifier.prefix = "npub" /\ Len(identifier.data) = 32) =>
               returned = <<[type |-> "npub",
                             data |-> [id |-> <<>>, pubkey |-> <<LowerHex(identifier.data)>>, relays |-> <<>>,
                                       author |-> <<>>, kind |-> <<>>, dTag |-> <<>>],
                             tlv |-> <<>>]>>
        /\ (identifier.prefix = "note" /\ Len(identifier.data) = 32) =>
               returned = <<[type |-> "note",
                             data |-> [id |-> <<LowerHex(identifier.data)>>, pubkey |-> <<>>, relays |-> <<>>,
                                       author |-> <<>>, kind |-> <<>>, dTag |-> <<>>],
                             tlv |-> <<>>]>>
        /\ (identifier.prefix \notin SixPrefixes) => returned = <<Null>>

C19_Witness ==
    /\ pc = "done"
    /\ identifier.ok
    /\ identifier.prefix = "npub"
    /\ Len(identifier.data) = 32
    /\ returned # <<Null>>
    /\ returned[1].type = "npub"
    /\ Len(returned[1].data.pubkey[1]) = 64
\* C20: every id, pubkey and author of a returned identifier is the hex of
\* exactly 32 bytes (64 hex characters).
C20_KeysAre32Bytes ==
    (pc = "done" /\ returned # <<Null>>) =>
        LET d == returned[1].data
        IN  /\ d.id # <<>> => Len(d.id[1]) = 64
            /\ d.pubkey # <<>> => Len(d.pubkey[1]) = 64
            /\ d.author # <<>> => Len(d.author[1]) = 64

-----------------------------------------------------------------------------
(* Claims about parseInput, under SpecParse *)

ParDone == ppc = "done"

Trimmed == trim(input)

Outcome == parsed[1]

\* the parsed JSON has the seven properties of an event with their types,
\* tags being an array of arrays
WellFormedEvent ==
    /\ jsonOf # <<>>
    /\ jsonOf[1].t = "object"
    /\ \A f \in {"id", "pubkey", "content", "sig"} : jsonOf[1].fields[f].t = "string"
    /\ \A f \in {"created_at", "kind"} : jsonOf[1].fields[f].t = "number"
    /\ jsonOf[1].fields["tags"].t = "array"
    /\ \A i \in 1..Len(jsonOf[1].fields["tags"].elems) : jsonOf[1].fields["tags"].elems[i] = "array"

\* what the decoder gives for str in this run
DecodedOf(str) == DecodePrefix(Bech32Decode(str, bechOf).prefix, Bech32Decode(str, bechOf).data)

\* str decodes to an identifier
Decodes(str) ==
    /\ Bech32Decode(str, bechOf).ok
    /\ Bech32Decode(str, bechOf).prefix \in SixPrefixes

AsIdentifier(decoded) == [type |-> "identifier", data |-> decoded]

HexNote(str) == [type |-> "note", data |-> [EmptyData EXCEPT !.id = <<toLowerCase(str)>>], tlv |-> <<>>]

\* C11: the result of parseInput is that of the first step that succeeds in
\* the order JSON event, bech32 identifier, nostr: URI, 64-hex id; JSON that
\* is no well-formed event falls through to the later steps, and the result
\* is null when no step succeeds.
C11_FixedOrder ==
    ParDone =>
        /\ ~Outcome.threw
        /\ Outcome.value =
              IF WellFormedEvent THEN [type |-> "event", data |-> jsonOf[1]]
              ELSE IF MatchesBech32Pattern(Trimmed) /\ Decodes(Trimmed)
                   THEN AsIdentifier(DecodedOf(Trimmed))
              ELSE IF startsWith(Trimmed, NostrScheme) /\ Decodes(substring(Trimmed, 6))
                   THEN AsIdentifier(DecodedOf(substring(Trimmed, 6)))
              ELSE IF MatchesHex64(Trimmed) THEN AsIdentifier(HexNote(Trimmed))
              ELSE Null

\* C12: parseInput returns an 'event' result only if the parsed JSON is an
\* object whose id, pubkey, content, sig are strings, created_at and kind
\* numbers, and tags an array whose every element is an array.
C12_EventOnlyIfWellFormed ==
    (ParDone /\ Outcome.value.type = "event") => WellFormedEvent

\* C13: when the trimmed input matches the bech32 identifier pattern and
\* decoding it fails, parseInput returns null.
C13_FailedDecodeIsNull ==
    (ParDone /\ MatchesBech32Pattern(Trimmed) /\ ~Bech32Decode(Trimmed, bechOf).ok) =>
        Outcome = [threw |-> FALSE, value |-> Null]

\* an input that matches the pattern, has the shape of a bech32 string and
\* a wrong checksum has been parsed
C13_Witness ==
    /\ ParDone
    /\ MatchesBech32Pattern(Trimmed)
    /\ Bech32WellFormed(Trimmed)
    /\ ~bechOf.ok
    /\ Outcome.value = Null

\* s is a bech32 string with prefix npub and a payload of 32 bytes
ValidNpub(s) ==
    /\ Bech32Decode(s, bechOf).ok
    /\ Bech32Decode(s, bechOf).prefix = "npub"
    /\ Len(Bech32Decode(s, bechOf).data) = 32

\* C14: for every valid npub string s, parseInput("nostr:" + s) returns what
\* parseInput(s) returns.
C14_UriSameAsBare ==
    (ParDone /\ startsWith(input, NostrScheme) /\ ValidNpub(substring(input, 6))) =>
        \A json \in JsonOutcomes(substring(input, 6)) :
            Outcome = parseInput(substring(input, 6), json, bechOf)

\* C15: for an input of exactly 64 hex characters of either case that no
\* earlier step accepts, parseInput returns an identifier of type note whose
\* only populated field is id, the input in lower case, without relays and
\* without TLV records.
C15_HexIsNote ==
    (/\ ParDone
     /\ MatchesHex64(input)
     /\ StepJson(jsonOf).ret = <<>>
     /\ StepBech32(input, bechOf).ret = <<>>
     /\ StepNostrUri(input, bechOf).ret = <<>>) =>
        /\ ~Outcome.threw
        /\ Outcome.value.type = "identifier"
        /\ Outcome.value.data.type = "note"
        /\ Outcome.value.data.data = [EmptyData EXCEPT !.id = <<toLowerCase(input)>>]
        /\ Outcome.value.data.data.relays = <<>>
        /\ Outcome.value.data.tlv = <<>>

\* 64 hex characters with upper-case letters have been parsed to a note
\* whose id differs from the input
C15_Witness ==
    /\ ParDone
    /\ MatchesHex64(input)
    /\ input # toLowerCase(input)
    /\ Outcome.value.type = "identifier"
    /\ Outcome.value.data.data.id = <<toLowerCase(input)>>

\* C16: parseInput never throws and returns a ParsedResult or null;
\* malformed JSON and malformed bech32 make their step fail, and input that is
\* invalid JSON and matches no other pattern gives null.
C16_Total ==
    ParDone =>
        /\ ~Outcome.threw
        /\ Outcome.value.type \in {"event", "identifier", "null"}
        /\ (/\ jsonOf = <<>>
            /\ ~MatchesBech32Pattern(Trimmed)
            /\ ~startsWith(Trimmed, NostrScheme)
            /\ ~MatchesHex64(Trimmed)) => Outcome.value = Null
        /\ (/\ jsonOf = <<>>
            /\ DecodeArgument(Trimmed) # <<>>
            /\ ~Bech32Decode(DecodeArgument(Trimmed)[1], bechOf).ok
            /\ ~MatchesHex64(Trimmed)) => Outcome.value = Null

\* JSON.parse and bech32.decode have both thrown in a call that returned null
C16_Witness ==
    /\ ParDone
    /\ jsonOf = <<>>
    /\ DecodeArgument(Trimmed) # <<>>
    /\ ~Bech32Decode(DecodeArgument(Trimmed)[1], bechOf).ok
    /\ Outcome = [threw |-> FALSE, value |-> Null]

-----------------------------------------------------------------------------
(* Claims about round trips and termination of the TLV decoder, under SpecDecode *)

\* the tuples whose payload is the one being decoded
TuplesOfPayload == {t \in Tuples : EncodeTuple(t) = identifier.data}

\* the relays property as a list: none when the property is absent
RelayList(d) == IF d.relays = <<>> THEN <<>> ELSE d.relays[1]

\* the decoded fields are those of tuple t
RecoversTuple(d, t) ==
    /\ (identifier.prefix = "nevent" => d.id = <<bytesToHex(t.special)>> /\ d.pubkey = <<>>)
    /\ (identifier.prefix # "nevent" => d.pubkey = <<bytesToHex(t.special)>> /\ d.id = <<>>)
    /\ RelayList(d) = t.relays
    /\ d.author = (IF t.author = <<>> THEN <<>> ELSE <<bytesToHex(t.author[1])>>)
    /\ Len(d.kind) = Len(t.kind)
    /\ (t.kind # <<>> => d.kind[1] >= 0 /\ Base256(d.kind[1]) = StripLeadingZeros(t.kind[1]))
    /\ d.dTag = t.dTag

\* C21: decoding the TLV payload built from a tuple (special value, relays,
\* author, kind, d tag) recovers that tuple: the special value as id for
\* nevent and as pubkey for nprofile and naddr, the author, the kind, the d
\* tag, and the relays in their order with duplicates kept.
C21_TupleRoundTrip ==
    (pc = "done" /\ identifier.ok /\ identifier.prefix \in TLVPrefixes) =>
        \A t \in TuplesOfPayload : RecoversTuple(returned[1].data, t)

-----------------------------------------------------------------------------
(* Further claims about validateEvent, under SpecValidate *)

\* C22: the digest has completed before idMatch is computed and read, and the
\* signature verification has completed, its boolean outcome known, before
\* sigValid is read for the 'Invalid signature' test and for isValid.
C22_ChecksCompleteBeforeRead ==
    /\ (idMatch # JsFalse => hash # <<>>)
    /\ (ValDone /\ sigTried) => vresult[1].sigValid \in JsBooleans

\* C25: in every result of validateEvent, errors is empty exactly when
\* idMatch and sigValid are both true.
C25_ErrorsIffBothTrue ==
    ValDone =>
        LET r == vresult[1]
        IN  (r.errors = <<>>) <=> (r.idMatch = JsTrue /\ r.sigValid = JsTrue)

\* an even number of hex digits
IsHexString(str) == Len(str) % 2 = 0 /\ \A i \in 1..Len(str) : HexValue(str[i]) # Undefined

\* C30: hexToBytes signals an error for every string of odd length or with a
\* character that is no hex digit; here for event.id, the first string the
\* signature block converts, whose error the block reports in errors.
C30_HexToBytesRejects ==
    (ValDone /\ sigTried /\ ~IsHexString(event.id)) =>
        /\ hexToBytesThrows(event.id)
        /\ \E i \in 1..Len(vresult[1].errors) :
              vresult[1].errors[i] = SigFailedError("Invalid typed array length")

-----------------------------------------------------------------------------
(* Further claims about parseInput, under SpecParse *)

\* C24: for an input that starts with 'nostr:', parseInput returns an
\* identifier exactly when the remainder matches the bech32 identifier
\* pattern and decodes, that is when parseInput of the remainder gives an
\* identifier through its second step.
C24_UriAppliesPattern ==
    (ParDone /\ startsWith(Trimmed, NostrScheme)) =>
        LET rest == substring(Trimmed, 6)
        IN  /\ (Outcome.value.type = "identifier") <=> (MatchesBech32Pattern(rest) /\ Decodes(rest))
            /\ (Outcome.value.type = "identifier") <=> (StepBech32(rest, bechOf).ret # <<>>)

-----------------------------------------------------------------------------
(* Termination of the TLV loop, under SpecDecodeLive *)

\* C26: the cursor loop of decodeTLV terminates for every payload: an
\* iteration moves the offset forward by two or more or makes the loop
\* condition false, the loop runs at most Len(payload)/2 rounded up
\* iterations, and the decoder returns.
C26_LoopTerminates ==
    /\ [](Len(result.tlv) <= (Len(identifier.data) + 1) \div 2)
    /\ [][(pc = "loop" /\ offset' # offset) =>
            (offset' >= offset + 2 \/ ~JsLess(offset', Len(identifier.data)))]_vars
    /\ <>(pc = "done")

\* a payload with a record of length 0 and a truncated last record has been
\* decoded
C26_Witness ==
    /\ DecodedTLV
    /\ returned # <<Null>>
    /\ Len(returned[1].tlv) >= 2
    /\ \E i \in 1..Len(returned[1].tlv) : returned[1].tlv[i].length = 0
    /\ offset > Len(identifier.data)

-----------------------------------------------------------------------------
(* Claims about concurrent validateEvent calls, under SpecConcurrent *)

\* what validateEvent returns for ev when it is the only call, its digest
\* being fulfilled or rejected
ResultAlone(ev, api, fulfilled) ==
    IF fulfilled
    THEN LET im == JsBool(bytesToHex(sha256(Serialize(ev))) = ev.id)
             sc == SigCheck(ev, api)
             errs == (IF Truthy(im) THEN <<>> ELSE <<IdMismatchError>>) \o sc.errors
         IN  ValidationResult(im, sc.sigValid, errs)
    ELSE ValidationResult(JsFalse, JsFalse,
                          <<ValidationError("Cannot read properties of undefined (reading 'digest')")>>)

\* C23: concurrent calls of validateEvent, interleaved at their suspension
\* points in any order, do not interfere: each call returns the result that
\* running it alone on its event gives, with an errors list of its own.
C23_CallsDoNotInterfere ==
    \A c \in CallIds :
        calls[c].status = "done" =>
            /\ calls[c].result = <<ResultAlone(calls[c].event, verifyApi, calls[c].hash # <<>>)>>
            /\ calls[c].result[1].errors = calls[c].errors

\* two calls on different events have both returned, the one made first
\* having returned last with errors, the other without
C23_Witness ==
    /\ calls[1].status = "done"
    /\ calls[2].status = "done"
    /\ calls[1].event # calls[2].event
    /\ calls[1].result[1].errors # <<>>
    /\ calls[2].result[1].errors = <<>>

-----------------------------------------------------------------------------
(* Claims about the App, under SpecApp *)

\* C27: after any sequence of handleParsedResult and goHome, the view is
\* 'home' exactly when parsedResult is null, 'inspect' only with an event and
\* 'decode' only with an identifier, so that one of the three components is
\* rendered.
C27_ViewAgreesWithResult ==
    /\ (currentView = "home") <=> (parsedResult = Null)
    /\ (currentView = "inspect") => parsedResult.type = "event"
    /\ (currentView = "decode") => parsedResult.type = "identifier"
    /\ (currentView # "home") => (mounted # <<>> /\ mounted[1].view = currentView)

\* an identifier is shown after a return to the home view
C27_Witness ==
    /\ mounts = 2
    /\ currentView = "decode"
    /\ parsedResult.type = "identifier"

\* C28: whenever an EventInspector shows a validation result (isValidating
\* false, validation non-null), the result is the one validateEvent gives
\* for the event it displays.
C28_ValidationOfDisplayedEvent ==
    (mounted # <<>> /\ mounted[1].view = "inspect" /\ ~mounted[1].isValidating /\ mounted[1].validation # <<>>) =>
        /\ parsedResult.type = "event"
        /\ \E fulfilled \in BOOLEAN :
              mounted[1].validation[1] = ResultAlone(parsedResult.data, verifyApi, fulfilled)

\* the second EventInspector shows its result while the validation started
\* for the first, on another event, has not settled
C28_Witness ==
    /\ mounted # <<>>
    /\ mounted[1].view = "inspect"
    /\ mounted[1].validation # <<>>
    /\ \E v \in validations : v.inst # mounted[1].inst /\ v.event # parsedResult.data

\* C29: the indicator set by the most recent copy stays until that copy's
\* own timer fires: when the timer of an earlier copy of the component
\* fires while a later copy's timer is pending, copiedField does not change.
C29_EarlierTimerKeepsIndicator ==
    [][(/\ Len(timers) >= 2
        /\ timers' = Tail(timers)
        /\ mounted # <<>>
        /\ mounted' # <<>>
        /\ timers[1].inst = mounted[1].inst
        /\ timers[Len(timers)].inst = mounted[1].inst)
       => mounted'[1].copiedField = mounted[1].copiedField]_vars

====
